---- MODULE Spec2Model ----
(***************************************************************************)
(* Room acoustics helpers of the Resonance Audio web SDK (src/src/room.js) *)
(* as a state machine over the JavaScript heap they touch.                 *)
(*                                                                         *)
(* Objects are functions from their own property names to values; a key a  *)
(* partial object lacks is outside its DOMAIN.  Arrays held by a           *)
(* coefficient set are references: an entry names the library array it     *)
(* aliases, or carries an array the caller built itself.  Absorption       *)
(* values are in thousandths (0.030 is 30) and lengths in 1/32 m, so every *)
(* product the code forms is an exact integer here.                        *)
(***************************************************************************)
EXTENDS Integers, Sequences, FiniteSets, TLC

VARIABLES
  MaterialCoefficients,  \* Room.MaterialCoefficients: name -> 9-band array
  DefaultMaterials,      \* Room.DefaultMaterials: wall -> material name
  DefaultDimensions,     \* Room.DefaultDimensions: axis -> length
  materials,             \* the caller's wall -> material assignment object
  coefficients,          \* the caller's coefficient set object
  dimensions,            \* the caller's dimensions object
  arg,                   \* the argument objects as they were when the last call began
  ret,                   \* the value the last call returned
  log,                   \* what the last call passed to Utils.log, in order
  last,                  \* the operation that ran last
  numWrites              \* array writes the caller has made so far

vars == <<MaterialCoefficients, DefaultMaterials, DefaultDimensions, materials,
          coefficients, dimensions, arg, ret, log, last, numWrites>>

----------------------------------------------------------------------------
(* Bounds of the model.                                                    *)

\* Array elements the caller overwrites in a returned set.
MaxVectorWrites == 1

\* Keys the caller stores in its assignment: the alias, a side wall, and a
\* wall the alias does not reach.
CallerKeys == {"walls", "left", "ceiling"}
\* Material names the caller uses: a preset, a name that is nowhere, and a
\* name every JavaScript object inherits from Object.prototype.
CallerMaterials == {"BrickBare", "Unobtainium", "toString"}
\* Band indexes (0-based, as in the code) and values the caller writes.
CallerBands == {0}
CallerValues == {0}

----------------------------------------------------------------------------
(* The static tables, as room.js constructs them.                          *)

WallTypes == <<"left", "right", "front", "back", "ceiling", "floor">>
NumWalls == Len(WallTypes)

DimensionTypes == <<"width", "height", "depth">>
NumDimensions == Len(DimensionTypes)

InitialDefaultDimensions == [k \in {"width", "height", "depth"} |-> 0]

InitialDefaultMaterials ==
  [k \in {"left", "right", "front", "back", "floor", "ceiling"} |-> "Transparent"]

InitialMaterialCoefficients ==
     "Transparent" :> <<1000, 1000, 1000, 1000, 1000, 1000, 1000, 1000, 1000>>
  @@ "AcousticCeilingTiles" :> <<672, 675, 700, 660, 720, 920, 880, 750, 1000>>
  @@ "BrickBare" :> <<30, 30, 30, 30, 30, 40, 50, 70, 140>>
  @@ "BrickPainted" :> <<6, 7, 10, 10, 20, 20, 20, 30, 60>>
  @@ "ConcreteBlockCoarse" :> <<360, 360, 360, 440, 310, 290, 390, 250, 500>>
  @@ "ConcreteBlockPainted" :> <<92, 90, 100, 50, 60, 70, 90, 80, 160>>
  @@ "CurtainHeavy" :> <<73, 106, 140, 350, 550, 720, 700, 650, 1000>>
  @@ "FiberGlassInsulation" :> <<193, 220, 220, 820, 990, 990, 990, 990, 1000>>
  @@ "GlassThin" :> <<180, 169, 180, 60, 40, 30, 20, 20, 40>>
  @@ "GlassThick" :> <<350, 350, 350, 250, 180, 120, 70, 40, 80>>
  @@ "Grass" :> <<50, 50, 150, 250, 400, 550, 600, 600, 600>>
  @@ "LinoleumOnConcrete" :> <<20, 20, 20, 30, 30, 30, 30, 20, 40>>
  @@ "Marble" :> <<10, 10, 10, 10, 10, 10, 20, 20, 40>>
  @@ "Metal" :> <<30, 35, 40, 40, 50, 50, 50, 70, 90>>
  @@ "ParquetOnConcrete" :> <<28, 30, 40, 40, 70, 60, 60, 70, 140>>
  @@ "PlasterRough" :> <<17, 18, 20, 30, 40, 50, 40, 30, 60>>
  @@ "PlasterSmooth" :> <<11, 12, 13, 15, 20, 30, 40, 50, 100>>
  @@ "PlywoodPanel" :> <<400, 340, 280, 220, 170, 90, 100, 110, 220>>
  @@ "PolishedConcreteOrTile" :> <<8, 8, 10, 10, 15, 20, 20, 20, 40>>
  @@ "Sheetrock" :> <<290, 279, 290, 100, 50, 40, 70, 90, 180>>
  @@ "WaterOrIceSurface" :> <<6, 6, 8, 8, 13, 15, 20, 25, 50>>
  @@ "WoodCeiling" :> <<150, 147, 150, 110, 100, 70, 60, 70, 140>>
  @@ "WoodPanel" :> <<280, 280, 280, 220, 170, 90, 100, 110, 220>>
  @@ "Uniform" :> <<500, 500, 500, 500, 500, 500, 500, 500, 500>>

\* Property names every plain object inherits from Object.prototype; the
\* JavaScript `in` operator answers true for them on any object.
ObjectPrototype ==
  {"constructor", "hasOwnProperty", "isPrototypeOf", "propertyIsEnumerable",
   "toLocaleString", "toString", "valueOf", "__proto__", "__defineGetter__",
   "__defineSetter__", "__lookupGetter__", "__lookupSetter__"}

----------------------------------------------------------------------------
(* JavaScript object primitives.                                           *)

\* key in obj
In(key, obj) == key \in DOMAIN obj \/ key \in ObjectPrototype

\* obj[key] = value
Put(obj, key, value) ==
  [k \in DOMAIN obj \cup {key} |-> IF k = key THEN value ELSE obj[k]]

\* delete obj[key]
Delete(obj, key) == [k \in DOMAIN obj \ {key} |-> obj[k]]

\* {}
EmptyObject == [k \in {} |-> 0]

\* Values a coefficient set can hold for a wall.
LibraryArray(name) == [kind |-> "library", of |-> name, vec |-> <<>>]
OwnArray(v) == [kind |-> "own", of |-> "", vec |-> v]
Inherited(name) == [kind |-> "inherited", of |-> name, vec |-> <<>>]
Undefined == [kind |-> "undefined", of |-> "", vec |-> <<>>]

\* Room.MaterialCoefficients[name]: the library's own array, what
\* Object.prototype holds under that name, or undefined.
MaterialLookup(name) ==
  IF name \in DOMAIN MaterialCoefficients THEN LibraryArray(name)
  ELSE IF name \in ObjectPrototype THEN Inherited(name)
  ELSE Undefined

\* Utils.log(message)
UtilsLog(messages, message) == Append(messages, message)

----------------------------------------------------------------------------
(* Room.getCoefficientsFromMaterials                                       *)

\* Lines 142-147: every wall starts at its default material's array.
RECURSIVE InitCoefficients(_, _)
InitCoefficients(c, i) ==
  IF i > NumWalls THEN c
  ELSE LET key == WallTypes[i]
           defaultMaterialForWall == DefaultMaterials[key]
       IN InitCoefficients(Put(c, key, MaterialLookup(defaultMaterialForWall)), i + 1)

\* ExpandWalls as it would be if it spared the walls the assignment names
\* itself.
RECURSIVE ExpandWallsKeepingOwn(_, _)
ExpandWallsKeepingOwn(m, i) ==
  IF i > NumWalls THEN m
  ELSE LET key == WallTypes[i]
       IN IF key # "ceiling" /\ key # "floor" /\ ~In(key, m)
          THEN ExpandWallsKeepingOwn(Put(m, key, m["walls"]), i + 1)
          ELSE ExpandWallsKeepingOwn(m, i + 1)

\* Lines 156-161: the value under 'walls' is stored under the four side walls
\* of the object that was passed in.
RECURSIVE ExpandWalls(_, _)
ExpandWalls(m, i) ==
  IF i > NumWalls THEN m
  ELSE LET key == WallTypes[i]
       IN IF key # "ceiling" /\ key # "floor"
          THEN ExpandWalls(Put(m, key, m["walls"]), i + 1)
          ELSE ExpandWalls(m, i + 1)

\* Lines 155-162.
ApplyWalls(m) == IF In("walls", m) THEN ExpandWalls(m, 1) ELSE m

\* Lines 167-177: one wall of the assignment loop; s holds the coefficients
\* and the messages so far.
AssignWall(s, m, key) ==
  IF In(key, m)
  THEN LET defaultMaterialForWall == DefaultMaterials[key]
       IN IF In(m[key], MaterialCoefficients)
          THEN [s EXCEPT !.coefficients = Put(@, key, MaterialLookup(m[key]))]
          ELSE [s EXCEPT !.log = UtilsLog(@,
                  [msg |-> "not found", wall |-> key, material |-> m[key],
                   using |-> defaultMaterialForWall])]
  ELSE [s EXCEPT !.log = UtilsLog(@,
          [msg |-> "not defined", wall |-> key, material |-> "", using |-> ""])]

\* Lines 165-178.
RECURSIVE AssignCoefficients(_, _, _)
AssignCoefficients(s, m, i) ==
  IF i > NumWalls THEN s
  ELSE AssignCoefficients(AssignWall(s, m, WallTypes[i]), m, i + 1)

\* The whole function on the object m it works on: what it returns, what it
\* logs, and what m holds when it returns.
getCoefficientsFromMaterials(m) ==
  LET expanded == ApplyWalls(m)
      s == AssignCoefficients(
             [coefficients |-> InitCoefficients(EmptyObject, 1), log |-> <<>>],
             expanded, 1)
  IN [coefficients |-> s.coefficients, log |-> s.log, materials |-> expanded]

----------------------------------------------------------------------------
(* A caller of the resolver: it owns one assignment object, edits it,      *)
(* passes it (or nothing) to getCoefficientsFromMaterials, keeps the set   *)
(* it gets back and may store into the arrays of that set.                 *)

NoCall == [op |-> "none"]

Init ==
  /\ MaterialCoefficients = InitialMaterialCoefficients
  /\ DefaultMaterials = InitialDefaultMaterials
  /\ DefaultDimensions = InitialDefaultDimensions
  /\ materials = EmptyObject
  /\ coefficients = EmptyObject
  /\ dimensions = EmptyObject
  /\ arg = NoCall
  /\ ret = EmptyObject
  /\ log = <<>>
  /\ last = "init"
  /\ numWrites = 0

\* materials[key] = name, by the caller.
CallerSetMaterial(key, name) ==
  /\ materials' = Put(materials, key, name)
  /\ arg' = NoCall
  /\ log' = <<>>
  /\ last' = "callerSetMaterial"
  /\ UNCHANGED <<MaterialCoefficients, DefaultMaterials, DefaultDimensions,
                 coefficients, dimensions, ret, numWrites>>

\* delete materials[key], by the caller.
CallerDeleteMaterial(key) ==
  /\ key \in DOMAIN materials
  /\ materials' = Delete(materials, key)
  /\ arg' = NoCall
  /\ log' = <<>>
  /\ last' = "callerDeleteMaterial"
  /\ UNCHANGED <<MaterialCoefficients, DefaultMaterials, DefaultDimensions,
                 coefficients, dimensions, ret, numWrites>>

\* ret = Room.getCoefficientsFromMaterials(materials), or with no argument:
\* lines 150-152 then make Room.DefaultMaterials the object worked on.
CallGetCoefficientsFromMaterials(passed) ==
  LET m == IF passed THEN materials ELSE DefaultMaterials
      r == getCoefficientsFromMaterials(m)
  IN /\ arg' = [op |-> "getCoefficientsFromMaterials", passed |-> passed,
                materials |-> m]
     /\ ret' = r.coefficients
     /\ log' = r.log
     /\ IF passed
        THEN materials' = r.materials /\ UNCHANGED DefaultMaterials
        ELSE DefaultMaterials' = r.materials /\ UNCHANGED materials
     /\ last' = "getCoefficientsFromMaterials"
     /\ UNCHANGED <<MaterialCoefficients, DefaultDimensions,
                    coefficients, dimensions, numWrites>>

\* ret[wall][band] = value, by the caller, on the set the last call returned.
\* The set's entries are the library's arrays themselves (lines 146, 170).
CallerWriteVector(wall, band, value) ==
  /\ numWrites < MaxVectorWrites
  /\ wall \in DOMAIN ret
  /\ ret[wall].kind = "library"
  /\ MaterialCoefficients' =
       [MaterialCoefficients EXCEPT ![ret[wall].of][band + 1] = value]
  /\ numWrites' = numWrites + 1
  /\ arg' = NoCall
  /\ log' = <<>>
  /\ last' = "callerWriteVector"
  /\ UNCHANGED <<DefaultMaterials, DefaultDimensions, materials,
                 coefficients, dimensions, ret>>

Next ==
  \/ \E key \in CallerKeys, name \in CallerMaterials : CallerSetMaterial(key, name)
  \/ \E key \in CallerKeys : CallerDeleteMaterial(key)
  \/ \E passed \in BOOLEAN : CallGetCoefficientsFromMaterials(passed)
  \/ \E wall \in {"left", "right", "front", "back", "ceiling", "floor"},
        band \in CallerBands, value \in CallerValues :
       CallerWriteVector(wall, band, value)

Spec == Init /\ [][Next]_vars

----------------------------------------------------------------------------
(* Configuration read from globals.js, and the constants of room.js.       *)

NumReverbBands == 9
DefaultReflectionsNumAveragingBands == 3
DefaultReflectionsStartingBand == 4
DefaultSpeedOfSound == 343
\* Globals.TwentyFourLog10 = 24 * ln(10), in thousandths.
TwentyFourLog10 == 55262

\* Room.MinVolume = 1e-4 cubic metres, as MinVolumeNum / MinVolumeDen.
MinVolumeNum == 1
MinVolumeDen == 10000
\* Lengths are in 1/32 m, so a volume is in 1/32768 cubic metres.
UnitsPerMetre == 32
UnitsPerCubicMetre == UnitsPerMetre * UnitsPerMetre * UnitsPerMetre

\* Room.AirAbsorbtionCoefficients, in ten-thousandths.
AirAbsorbtionCoefficients == <<6, 6, 7, 8, 10, 15, 26, 60, 207>>

\* One is 1000 thousandths.
One == 1000
\* The value standing for NaN.
NaN == -1

----------------------------------------------------------------------------
(* Arguments: a JavaScript argument is an object or is undefined.          *)

Passed(obj) == [defined |-> TRUE, obj |-> obj]
NotPassed == [defined |-> FALSE, obj |-> EmptyObject]

\* array[index] for an entry of a coefficient set, index 0-based.
Element(entry, index) ==
  IF entry.kind = "library" THEN MaterialCoefficients[entry.of][index + 1]
  ELSE IF entry.kind = "own" /\ index + 1 \in DOMAIN entry.vec THEN entry.vec[index + 1]
  ELSE NaN

----------------------------------------------------------------------------
(* Room.sanitizeCoefficients and Room.sanitizeDimensions                   *)

\* FillCoefficients as it would be without the test of line 188.
RECURSIVE FillCoefficientsOverwriting(_, _)
FillCoefficientsOverwriting(c, i) ==
  IF i > NumWalls THEN c
  ELSE LET key == WallTypes[i]
           defaultMaterialForWall == DefaultMaterials[key]
       IN FillCoefficientsOverwriting(
            Put(c, key, MaterialLookup(defaultMaterialForWall)), i + 1)

\* Lines 186-193.
RECURSIVE FillCoefficients(_, _)
FillCoefficients(c, i) ==
  IF i > NumWalls THEN c
  ELSE LET key == WallTypes[i]
       IN IF ~In(key, c)
          THEN LET defaultMaterialForWall == DefaultMaterials[key]
               IN FillCoefficients(Put(c, key, MaterialLookup(defaultMaterialForWall)), i + 1)
          ELSE FillCoefficients(c, i + 1)

\* The object the function returns; when an object was passed it is that
\* object, filled in place.
sanitizeCoefficients(a) ==
  FillCoefficients(IF ~a.defined THEN EmptyObject ELSE a.obj, 1)

\* Lines 201-206.
RECURSIVE FillDimensions(_, _)
FillDimensions(d, i) ==
  IF i > NumDimensions THEN d
  ELSE LET key == DimensionTypes[i]
       IN IF ~In(key, d)
          THEN FillDimensions(Put(d, key, DefaultDimensions[key]), i + 1)
          ELSE FillDimensions(d, i + 1)

sanitizeDimensions(a) ==
  FillDimensions(IF ~a.defined THEN EmptyObject ELSE a.obj, 1)

----------------------------------------------------------------------------
(* Room.computeReflectionCoefficients                                      *)

\* The largest r in lo..hi with r * r * n <= num * One, by bisection.
RECURSIVE Root(_, _, _, _)
Root(lo, hi, num, n) ==
  IF lo >= hi THEN lo
  ELSE LET mid == (lo + hi + 1) \div 2
       IN IF mid * mid * n <= num * One
          THEN Root(mid, hi, num, n)
          ELSE Root(lo, mid - 1, num, n)

\* Math.sqrt(x) in thousandths, rounded down, for x = num / (n * One);
\* NaN for a negative x.
Sqrt(num, n) == IF num < 0 THEN NaN ELSE Root(0, 2 * One, num, n)

\* Lines 220-223: the sum over the averaging bands, from j on.
RECURSIVE SumBands(_, _)
SumBands(entry, j) ==
  IF j >= DefaultReflectionsNumAveragingBands THEN 0
  ELSE LET bandIndex == j + DefaultReflectionsStartingBand
           x == Element(entry, bandIndex)
           rest == SumBands(entry, j + 1)
       IN IF x = NaN \/ rest = NaN THEN NaN ELSE x + rest

\* Lines 224-225: the sum is divided by the number of bands and the root of
\* one minus that is taken.
Reflection(entry) ==
  LET sum == SumBands(entry, 0)
  IN IF sum = NaN THEN NaN
     ELSE Sqrt(DefaultReflectionsNumAveragingBands * One - sum,
               DefaultReflectionsNumAveragingBands)

RECURSIVE ReflectWalls(_, _, _)
ReflectWalls(r, c, i) ==
  IF i > NumWalls THEN r
  ELSE LET key == WallTypes[i]
       IN ReflectWalls(Put(r, key, Reflection(c[key])), c, i + 1)

\* What the function returns, and the object it sanitized on the way.
computeReflectionCoefficients(a) ==
  LET c == sanitizeCoefficients(a)
  IN [reflectionCoefficients |->
        ReflectWalls([k \in {"left", "right", "front", "back", "floor", "ceiling"} |-> 0],
                     c, 1),
      coefficients |-> c]

----------------------------------------------------------------------------
(* Room.computeRT60Secs                                                    *)

\* An element of the Float32Array as line 231 creates it.
Float32Zero ==
  [equation |-> "none", k |-> <<0, 1>>, volume |-> 0, absorbtionArea |-> 0,
   totalArea |-> 0, airAbsorbtion |-> 0]

\* BelowMinVolume as it would be if it tested for an empty room only.
BelowMinVolumeEmptyOnly(volume) == volume <= 0

\* Line 245: volume < Room.MinVolume.
BelowMinVolume(volume) == volume * MinVolumeDen < MinVolumeNum * UnitsPerCubicMetre

\* MeanAtMostHalf as it would be with < in place of <=.
MeanBelowHalf(absorbtionArea, totalArea) ==
  IF totalArea > 0 THEN 2 * absorbtionArea < One * totalArea
  ELSE IF totalArea < 0 THEN 2 * absorbtionArea > One * totalArea
  ELSE absorbtionArea < 0

\* Line 267: absorbtionArea / totalArea <= 0.5, by the rules of IEEE
\* division (a zero total gives an infinity or NaN).
MeanAtMostHalf(absorbtionArea, totalArea) ==
  IF totalArea > 0 THEN 2 * absorbtionArea <= One * totalArea
  ELSE IF totalArea < 0 THEN 2 * absorbtionArea >= One * totalArea
  ELSE absorbtionArea < 0

\* Lines 256-275 for band i (0-based).  The value stored is kept as the
\* equation chosen and its operands: k is the pair TwentyFourLog10 over
\* the speed of sound.
Band(c, i, k, volume, leftRightArea, floorCeilingArea, frontBackArea, totalArea) ==
  LET absorbtionArea ==
        (Element(c["left"], i) + Element(c["right"], i)) * leftRightArea +
        (Element(c["floor"], i) + Element(c["ceiling"], i)) * floorCeilingArea +
        (Element(c["front"], i) + Element(c["back"], i)) * frontBackArea
  IN [equation |-> IF MeanAtMostHalf(absorbtionArea, totalArea)
                   THEN "Sabine" ELSE "Eyring",
      k |-> k, volume |-> volume, absorbtionArea |-> absorbtionArea,
      totalArea |-> totalArea, airAbsorbtion |-> AirAbsorbtionCoefficients[i + 1]]

\* What the function returns, and the two objects it sanitized on the way.
computeRT60Secs(da, ca, speed) ==
  LET RT60Secs == [i \in 1..NumReverbBands |-> Float32Zero]
      d == sanitizeDimensions(da)
      c == sanitizeCoefficients(ca)
      speedOfSound == IF ~speed.defined THEN DefaultSpeedOfSound ELSE speed.value
      k == <<TwentyFourLog10, speedOfSound>>
      volume == d["width"] * d["height"] * d["depth"]
      leftRightArea == d["width"] * d["height"]
      floorCeilingArea == d["width"] * d["depth"]
      frontBackArea == d["depth"] * d["height"]
      totalArea == 2 * (leftRightArea + floorCeilingArea + frontBackArea)
  IN [RT60Secs |->
        IF BelowMinVolume(volume) THEN RT60Secs
        ELSE [i \in 1..NumReverbBands |->
                Band(c, i - 1, k, volume, leftRightArea, floorCeilingArea,
                     frontBackArea, totalArea)],
      dimensions |-> d, coefficients |-> c]

----------------------------------------------------------------------------
(* A caller of the sanitizers and the two estimators: it owns one          *)
(* coefficient set object and one dimensions object and passes them, or    *)
(* nothing, to the four functions.                                         *)

\* Arrays the caller builds itself: fully reflective, absorption above one,
\* and one that differs from band to band.
CallerVectors ==
  {<<0, 0, 0, 0, 0, 0, 0, 0, 0>>,
   <<2000, 2000, 2000, 2000, 2000, 2000, 2000, 2000, 2000>>,
   <<0, 0, 0, 0, 0, 1000, 1000, 1000, 1000>>}
\* What the caller stores under a wall: its own arrays, or an array it got
\* from the library through an earlier result.
CallerEntries ==
  {OwnArray(v) : v \in CallerVectors} \cup {LibraryArray("Uniform")}
\* Walls of a partial set, and the lengths (in 1/32 m) of the dimensions.
CallerWalls == {"left", "floor"}
CallerLengths == {0, 1, 2}
CallerSpeeds == {[defined |-> FALSE, value |-> 0], [defined |-> TRUE, value |-> 340]}

WallSet == {WallTypes[i] : i \in 1..NumWalls}
DimensionSet == {DimensionTypes[i] : i \in 1..NumDimensions}

\* Partial sets over CallerWalls, and full sets with one entry on every wall.
CallerSets ==
  UNION {[D -> CallerEntries] : D \in SUBSET CallerWalls}
    \cup {[w \in WallSet |-> e] : e \in CallerEntries}

CallerDimensions == UNION {[D -> CallerLengths] : D \in SUBSET DimensionSet}

RoomInit ==
  /\ MaterialCoefficients = InitialMaterialCoefficients
  /\ DefaultMaterials = InitialDefaultMaterials
  /\ DefaultDimensions = InitialDefaultDimensions
  /\ materials = EmptyObject
  /\ coefficients \in CallerSets
  /\ dimensions \in CallerDimensions
  /\ arg = NoCall
  /\ ret = EmptyObject
  /\ log = <<>>
  /\ last = "init"
  /\ numWrites = 0

Untouched ==
  UNCHANGED <<MaterialCoefficients, DefaultMaterials, DefaultDimensions,
              materials, log, numWrites>>

\* ret = Room.sanitizeCoefficients(coefficients), or with no argument.
CallSanitizeCoefficients(passed) ==
  LET a == IF passed THEN Passed(coefficients) ELSE NotPassed
      r == sanitizeCoefficients(a)
  IN /\ arg' = [op |-> "sanitizeCoefficients", coefficients |-> a,
                dimensions |-> NotPassed]
     /\ ret' = r
     /\ coefficients' = IF passed THEN r ELSE coefficients
     /\ last' = "sanitizeCoefficients"
     /\ UNCHANGED dimensions
     /\ Untouched

\* ret = Room.sanitizeDimensions(dimensions), or with no argument.
CallSanitizeDimensions(passed) ==
  LET a == IF passed THEN Passed(dimensions) ELSE NotPassed
      r == sanitizeDimensions(a)
  IN /\ arg' = [op |-> "sanitizeDimensions", coefficients |-> NotPassed,
                dimensions |-> a]
     /\ ret' = r
     /\ dimensions' = IF passed THEN r ELSE dimensions
     /\ last' = "sanitizeDimensions"
     /\ UNCHANGED coefficients
     /\ Untouched

\* ret = Room.computeReflectionCoefficients(coefficients), or with no argument.
CallComputeReflectionCoefficients(passed) ==
  LET a == IF passed THEN Passed(coefficients) ELSE NotPassed
      r == computeReflectionCoefficients(a)
  IN /\ arg' = [op |-> "computeReflectionCoefficients", coefficients |-> a,
                dimensions |-> NotPassed]
     /\ ret' = r.reflectionCoefficients
     /\ coefficients' = IF passed THEN r.coefficients ELSE coefficients
     /\ last' = "computeReflectionCoefficients"
     /\ UNCHANGED dimensions
     /\ Untouched

\* ret = Room.computeRT60Secs(dimensions, coefficients, speedOfSound), each
\* argument given or not.
CallComputeRT60Secs(dPassed, cPassed, speed) ==
  LET da == IF dPassed THEN Passed(dimensions) ELSE NotPassed
      ca == IF cPassed THEN Passed(coefficients) ELSE NotPassed
      r == computeRT60Secs(da, ca, speed)
  IN /\ arg' = [op |-> "computeRT60Secs", coefficients |-> ca,
                dimensions |-> da, speedOfSound |-> speed]
     /\ ret' = r.RT60Secs
     /\ dimensions' = IF dPassed THEN r.dimensions ELSE dimensions
     /\ coefficients' = IF cPassed THEN r.coefficients ELSE coefficients
     /\ last' = "computeRT60Secs"
     /\ Untouched

RoomNext ==
  \/ \E passed \in BOOLEAN : CallSanitizeCoefficients(passed)
  \/ \E passed \in BOOLEAN : CallSanitizeDimensions(passed)
  \/ \E passed \in BOOLEAN : CallComputeReflectionCoefficients(passed)
  \/ \E dPassed \in BOOLEAN, cPassed \in BOOLEAN, speed \in CallerSpeeds :
       CallComputeRT60Secs(dPassed, cPassed, speed)

RoomSpec == RoomInit /\ [][RoomNext]_vars

----------------------------------------------------------------------------
(* Properties of the resolver, checked under Spec.                         *)

SideWalls == {"left", "right", "front", "back"}

ResolverReturned == last = "getCoefficientsFromMaterials"

\* The material name the assignment of the last call gives a wall once the
\* alias is applied, or "" when it gives none.
ExpandedName(wall) ==
  LET a == arg.materials
  IN IF "walls" \in DOMAIN a /\ wall \in SideWalls THEN a["walls"]
     ELSE IF wall \in DOMAIN a THEN a[wall]
     ELSE ""

Diagnosed(wall) == {log[i] : i \in {j \in DOMAIN log : log[j].wall = wall}}

\* C1: whatever assignment is passed, getCoefficientsFromMaterials returns a
\* set in which each of the six walls is present and maps to a 9-element
\* absorption vector of the MaterialLibrary.
C1_ResolvedSetIsComplete ==
  ResolverReturned =>
    /\ DOMAIN ret = WallSet
    /\ \A wall \in WallSet :
         /\ ret[wall].kind = "library"
         /\ ret[wall].of \in DOMAIN MaterialCoefficients
         /\ Len(MaterialCoefficients[ret[wall].of]) = 9

\* C2: getCoefficientsFromMaterials does not mutate the caller's assignment:
\* after a call the object that was passed holds exactly the keys and values
\* it held when the call began.
C2_AssignmentNotMutated ==
  (ResolverReturned /\ arg.passed) => materials = arg.materials

\* C3: when the assignment contains 'walls', left, right, front and back all
\* resolve to the vector of the material 'walls' names, whatever the
\* assignment names for them individually, and ceiling and floor are decided
\* by their own entries only (Transparent when they have none).
C3_WallsAliasOverridesSideWalls ==
  (ResolverReturned /\ arg.passed /\ "walls" \in DOMAIN arg.materials) =>
    LET a == arg.materials
    IN /\ \A w1 \in SideWalls, w2 \in SideWalls : ret[w1] = ret[w2]
       /\ a["walls"] \in DOMAIN InitialMaterialCoefficients =>
            \A wall \in SideWalls : ret[wall] = LibraryArray(a["walls"])
       /\ \A wall \in {"ceiling", "floor"} :
            /\ wall \notin DOMAIN a => ret[wall] = LibraryArray("Transparent")
            /\ (wall \in DOMAIN a /\ a[wall] \in DOMAIN InitialMaterialCoefficients)
                 => ret[wall] = LibraryArray(a[wall])

\* C3 happens: 'walls' names BrickBare, left names something else, ceiling has
\* an entry of its own and floor has none.
C3_Witness ==
  /\ ResolverReturned /\ arg.passed
  /\ DOMAIN arg.materials = {"walls", "left", "ceiling"}
  /\ arg.materials["walls"] = "BrickBare"
  /\ arg.materials["left"] = "Unobtainium"
  /\ arg.materials["ceiling"] = "BrickBare"
  /\ ret["left"] = LibraryArray("BrickBare")
  /\ ret["back"] = LibraryArray("BrickBare")
  /\ ret["ceiling"] = LibraryArray("BrickBare")
  /\ ret["floor"] = LibraryArray("Transparent")

\* C4: a wall whose name is no preset of the library keeps its default
\* (Transparent) vector and a diagnostic names the wall and the rejected
\* material; a wall the expanded assignment omits keeps the default vector and
\* is reported undefined; a wall naming a preset gets the preset's vector and
\* no diagnostic.
C4_UnknownMaterialFallsBack ==
  ResolverReturned =>
    \A wall \in WallSet :
      LET name == ExpandedName(wall)
          default == LibraryArray(InitialDefaultMaterials[wall])
      IN IF name = ""
         THEN /\ ret[wall] = default
              /\ \E d \in Diagnosed(wall) : d.msg = "not defined"
         ELSE IF name \in DOMAIN InitialMaterialCoefficients
         THEN /\ ret[wall] = LibraryArray(name)
              /\ Diagnosed(wall) = {}
         ELSE /\ ret[wall] = default
              /\ \E d \in Diagnosed(wall) :
                   d.msg = "not found" /\ d.material = name

\* C10: the library and the default tables stay as constructed after any
\* sequence of calls and caller actions, a caller's write into a vector of a
\* returned set included.
C10_TablesStayAsConstructed ==
  /\ MaterialCoefficients = InitialMaterialCoefficients
  /\ DefaultMaterials = InitialDefaultMaterials
  /\ DefaultDimensions = InitialDefaultDimensions

----------------------------------------------------------------------------
(* Properties of the sanitizers and estimators, checked under RoomSpec.    *)

\* The arguments of the last call, read without changing them: the length of
\* an axis (0 when it is missing) and a wall's absorption in a band (the
\* Transparent value when the wall is missing).
ArgLength(axis) ==
  IF arg.dimensions.defined /\ axis \in DOMAIN arg.dimensions.obj
  THEN arg.dimensions.obj[axis] ELSE 0

ArgVolume == ArgLength("width") * ArgLength("height") * ArgLength("depth")

ArgAbsorption(wall, band) ==
  IF arg.coefficients.defined /\ wall \in DOMAIN arg.coefficients.obj
  THEN LET e == arg.coefficients.obj[wall]
       IN IF e.kind = "own" THEN e.vec[band + 1]
          ELSE InitialMaterialCoefficients[e.of][band + 1]
  ELSE 1000

ArgAbsorptionArea(band) ==
  (ArgAbsorption("left", band) + ArgAbsorption("right", band))
     * ArgLength("width") * ArgLength("height")
  + (ArgAbsorption("floor", band) + ArgAbsorption("ceiling", band))
     * ArgLength("width") * ArgLength("depth")
  + (ArgAbsorption("front", band) + ArgAbsorption("back", band))
     * ArgLength("depth") * ArgLength("height")

ArgTotalArea ==
  2 * (ArgLength("width") * ArgLength("height")
       + ArgLength("width") * ArgLength("depth")
       + ArgLength("depth") * ArgLength("height"))

\* width * height * depth < 1e-4 cubic metres, lengths being in 1/32 m.
ArgVolumeBelowMin == ArgVolume * 10000 < 32768

\* C5: computeRT60Secs returns exactly 9 elements, all zero, whenever
\* width*height*depth is below MinVolume, for every coefficient set and speed
\* of sound, a missing axis or absent dimensions counting as 0.
C5_DegenerateVolumeGivesZeros ==
  (last = "computeRT60Secs" /\ ArgVolumeBelowMin) =>
    /\ Len(ret) = 9
    /\ \A i \in 1..9 : ret[i] = Float32Zero

\* C5 happens: dimensions without depth, no coefficient set, and a positive
\* volume below the threshold is covered by the formula's other states.
C5_Witness ==
  /\ last = "computeRT60Secs"
  /\ arg.dimensions.defined
  /\ DOMAIN arg.dimensions.obj = {"width", "height"}
  /\ arg.dimensions.obj["width"] = 2
  /\ arg.dimensions.obj["height"] = 2
  /\ ~arg.coefficients.defined
  /\ \A i \in 1..9 : ret[i] = Float32Zero

\* C6: with volume at least MinVolume, each band is computed from that band's
\* coefficients: Sabine exactly when absorptionArea[i]/totalArea is at most
\* 0.5 (0.5 included), Eyring otherwise, both on k, the volume, the band's
\* absorption area, the total area and the band's air absorption.
C6_SabineIffMeanAtMostHalf ==
  (last = "computeRT60Secs" /\ ~ArgVolumeBelowMin) =>
    /\ Len(ret) = 9
    /\ \A i \in 1..9 :
         /\ ret[i].equation =
              IF 2 * ArgAbsorptionArea(i - 1) <= 1000 * ArgTotalArea
              THEN "Sabine" ELSE "Eyring"
         /\ ret[i].absorbtionArea = ArgAbsorptionArea(i - 1)
         /\ ret[i].totalArea = ArgTotalArea
         /\ ret[i].volume = ArgVolume
         /\ ret[i].airAbsorbtion = AirAbsorbtionCoefficients[i]
         /\ ret[i].k = <<55262, IF arg.speedOfSound.defined
                                 THEN arg.speedOfSound.value ELSE 343>>

\* C6 happens: a band whose mean absorption is exactly 0.5 takes Sabine.
C6_Witness ==
  /\ last = "computeRT60Secs" /\ ~ArgVolumeBelowMin
  /\ \E i \in 1..9 :
       /\ 2 * ArgAbsorptionArea(i - 1) = 1000 * ArgTotalArea
       /\ ret[i].equation = "Sabine"

\* The sum of a wall's absorption over the averaging bands 4, 5 and 6.
ArgAbsorptionSum(wall) ==
  ArgAbsorption(wall, 4) + ArgAbsorption(wall, 5) + ArgAbsorption(wall, 6)

\* C7: computeReflectionCoefficients returns for each wall a number in [0,1],
\* sqrt(max(0, 1 - a)) for the average absorption a: 0 when a is 1 or more
\* and 1 when a is 0.
C7_ReflectionInUnitInterval ==
  last = "computeReflectionCoefficients" =>
    \A wall \in WallSet :
      /\ ret[wall] \in 0..1000
      /\ ArgAbsorptionSum(wall) >= 3000 => ret[wall] = 0
      /\ ArgAbsorptionSum(wall) = 0 => ret[wall] = 1000

\* C8: sanitizeCoefficients only fills gaps and is idempotent: the result has
\* all six walls, a wall the input held keeps its vector, a wall it lacked
\* gets its default-material vector, nothing is logged, and sanitizing the
\* result gives an equal set.
C8_SanitizeFillsGapsOnly ==
  last = "sanitizeCoefficients" =>
    /\ DOMAIN ret = WallSet
    /\ \A wall \in WallSet :
         IF arg.coefficients.defined /\ wall \in DOMAIN arg.coefficients.obj
         THEN ret[wall] = arg.coefficients.obj[wall]
         ELSE ret[wall] = LibraryArray(InitialDefaultMaterials[wall])
    /\ log = <<>>
    /\ sanitizeCoefficients(Passed(ret)) = ret

\* C8 happens: a set holding only left is filled on the five other walls.
C8_Witness ==
  /\ last = "sanitizeCoefficients"
  /\ arg.coefficients.defined
  /\ DOMAIN arg.coefficients.obj = {"left"}
  /\ arg.coefficients.obj["left"].kind = "own"
  /\ ret["left"] = arg.coefficients.obj["left"]
  /\ ret["floor"] = LibraryArray("Transparent")

\* C9: the sanitizers and the two estimators are pure: a call leaves the
\* caller's coefficient set and dimensions objects with exactly the keys and
\* values they had when it began.
C9_ArgumentsNotMutated ==
  last \in {"sanitizeCoefficients", "sanitizeDimensions",
            "computeReflectionCoefficients", "computeRT60Secs"} =>
    /\ arg.coefficients.defined => coefficients = arg.coefficients.obj
    /\ arg.dimensions.defined => dimensions = arg.dimensions.obj

====
